---- MODULE Spec2Model ----
(***************************************************************************)
(* Model of the character generator of ChroniclesOfTheVillage              *)
(* (src/model/generator.py): Generator.generate_characters, the role       *)
(* selector pick_roles (nested in _choose_roles) and the profession         *)
(* selector _choose_professions.                                           *)
(*                                                                         *)
(* A Python list whose order the code destroys with random.shuffle before  *)
(* anyone reads it (selected, roles, professions, characters) is kept as a *)
(* bag: a function from entry names to the number of copies.  The          *)
(* candidate pool keeps its list order.  random.choice is a                *)
(* nondeterministic choice of an index of the pool.                        *)
(***************************************************************************)
EXTENDS Integers, Sequences, FiniteSets, TLC

\* ------------------------------------------------------------------ bounds
MaxPlayers == 17
MaxSmallPlayers == 7
MaxCap == 4
MaxMin == 3
MaxReplayPlayers == 5
MaxDraws == 8
MaxValidBefore == 1
MaxWriterPlayers == 3

\* ------------------------------------------------------------ core.py enums
Tiers == {"TIER1", "TIER2", "TIER3", "TIER4"}
Alignments == {"GOOD", "EVIL", "NEUTRAL"}

RoleNames == {"g1", "g2", "e1", "e2", "n1", "n2"}
ProfessionNames == {"p1", "p2"}
Names == RoleNames \cup ProfessionNames

Role(name, alignment, tier_distribution, min_number) ==
    [name |-> name, alignment |-> alignment,
     tier_distribution |-> tier_distribution, min_number |-> min_number]

Profession(name, tier_distribution, min_number) ==
    [name |-> name, tier_distribution |-> tier_distribution,
     min_number |-> min_number]

\* dict.get(key, 0)
Get(d, key) == IF key \in DOMAIN d THEN d[key] ELSE 0

\* ------------------------------------------------------------------- bags
\* collections.Counter(): every missing key reads as 0
Counter == [x \in Names |-> 0]

RECURSIVE SumOver(_, _)
SumOver(f, S) ==
    IF S = {} THEN 0
    ELSE LET x == CHOOSE y \in S : TRUE IN f[x] + SumOver(f, S \ {x})

\* len(selected) for a list kept as a bag
len(bag) == SumOver(bag, Names)

\* selected.extend([entry] * k) ; selected_counts[entry.name] += k
Extend(bag, name, k) == [bag EXCEPT ![name] = @ + k]

\* selected.extend(other)
Concat(bag, other) == [x \in Names |-> bag[x] + other[x]]

Min(a, b) == IF a <= b THEN a ELSE b
Max(a, b) == IF a >= b THEN a ELSE b

\* --------------------------------------------------------------- generator
\* Generator._get_tier
get_tier_off_by_one(num_players) ==
    IF 4 <= num_players /\ num_players <= 7 THEN "TIER1"
    ELSE IF 8 <= num_players /\ num_players <= 11 THEN "TIER2"
    ELSE IF 12 <= num_players /\ num_players <= 14 THEN "TIER3"
    ELSE "TIER4"

get_tier(num_players) ==
    IF 4 <= num_players /\ num_players <= 7 THEN "TIER1"
    ELSE IF 8 <= num_players /\ num_players <= 11 THEN "TIER2"
    ELSE IF 12 <= num_players /\ num_players <= 15 THEN "TIER3"
    ELSE "TIER4"

\* generate_characters: the test that raises "Minimum number of players is 4"
TooFewPlayers_below_three(num_players) == num_players < 3

TooFewPlayers(num_players) == num_players < 4

\* _choose_roles: the alignment quotas
num_neutral(num_players) == num_players \div 6

num_evil_quarter(num_players) == num_players \div 4

num_evil(num_players) == num_players \div 3

num_good(num_players) ==
    num_players - num_neutral(num_players) - num_evil(num_players)

Quota(alignment, num_players) ==
    CASE alignment = "GOOD" -> num_good(num_players)
      [] alignment = "EVIL" -> num_evil(num_players)
      [] alignment = "NEUTRAL" -> num_neutral(num_players)

\* _choose_roles: good_roles / evil_roles / neutral_roles
AlignmentPool(catalog, alignment, t) ==
    SelectSeq(catalog, LAMBDA r :
        r.alignment = alignment /\ Get(r.tier_distribution, t) > 0)

\* _choose_professions: the pool filtered by tier
ProfessionPool(catalog, t) ==
    SelectSeq(catalog, LAMBDA p : Get(p.tier_distribution, t) > 0)

\* pick_roles: the if / elif of one iteration, as the number of copies of
\* the drawn role that the iteration appends
PickRolesToAdd_one_at_a_time(already_added, min_required, max_allowed, remaining) ==
    IF already_added < max_allowed THEN 1 ELSE 0

PickRolesToAdd_no_room_check(already_added, min_required, max_allowed, remaining) ==
    IF already_added < min_required
    THEN min_required - already_added
    ELSE IF already_added >= min_required /\ already_added < max_allowed
         THEN 1
         ELSE 0

PickRolesToAdd(already_added, min_required, max_allowed, remaining) ==
    IF already_added < min_required
       /\ remaining >= (min_required - already_added)
    THEN min_required - already_added
    ELSE IF already_added >= min_required /\ already_added < max_allowed
         THEN 1
         ELSE 0

\* _choose_professions: the if / elif of one iteration, likewise
ChooseProfessionsToAdd_fill_what_fits(already_added, min_required, max_allowed, remaining) ==
    IF already_added < min_required
    THEN IF remaining >= (min_required - already_added)
         THEN min_required - already_added
         ELSE remaining
    ELSE IF already_added >= min_required /\ already_added < max_allowed
         THEN 1
         ELSE 0

ChooseProfessionsToAdd(already_added, min_required, max_allowed, remaining) ==
    IF already_added < min_required
       /\ remaining >= (min_required - already_added)
    THEN min_required - already_added
    ELSE IF already_added >= min_required /\ already_added < max_allowed
         THEN 1
         ELSE 0

\* pick_roles: the condition of the list comprehension that narrows the pool
RoleKeep_strict_room(r, counts, remaining, t) ==
    /\ counts[r.name] < Get(r.tier_distribution, t)
    /\ remaining > (r.min_number - counts[r.name])

RoleKeep(r, counts, remaining, t) ==
    /\ counts[r.name] < Get(r.tier_distribution, t)
    /\ remaining >= (r.min_number - counts[r.name])

\* _choose_professions: the condition of its list comprehension
ProfessionKeep_one_early(p, counts, remaining, t) ==
    counts[p.name] + 1 < Get(p.tier_distribution, t)

ProfessionKeep(p, counts, remaining, t) ==
    counts[p.name] < Get(p.tier_distribution, t)

\* One iteration of the while loop of pick_roles with `role` drawn.
PickRolesIteration(st, cnt, t, role) ==
    LET to_add == PickRolesToAdd(st.selected_counts[role.name],
                                 role.min_number,
                                 Get(role.tier_distribution, t),
                                 cnt - len(st.selected))
        sel == Extend(st.selected, role.name, to_add)
        counts == Extend(st.selected_counts, role.name, to_add)
    IN [selected |-> sel,
        selected_counts |-> counts,
        pool |-> SelectSeq(st.pool, LAMBDA r :
                     RoleKeep(r, counts, cnt - len(sel), t))]

\* One iteration of the while loop of _choose_professions.
ChooseProfessionsIteration(st, cnt, t, profession) ==
    LET to_add == ChooseProfessionsToAdd(
                      st.selected_counts[profession.name],
                      profession.min_number,
                      Get(profession.tier_distribution, t),
                      cnt - len(st.selected))
        sel == Extend(st.selected, profession.name, to_add)
        counts == Extend(st.selected_counts, profession.name, to_add)
    IN [selected |-> sel,
        selected_counts |-> counts,
        pool |-> SelectSeq(st.pool, LAMBDA p :
                     ProfessionKeep(p, counts, cnt - len(sel), t))]

\* The Generator's catalog after the pool of a selection was narrowed from
\* `before` to `after`: the pools are lists built by comprehensions from
\* the catalog and each narrowing binds a new list to the local name, so
\* the catalog keeps its entries.
NarrowedCatalog_in_place(catalog, before, after) ==
    SelectSeq(catalog, LAMBDA e :
        (\A i \in 1 .. Len(before) : before[i] # e)
            \/ (\E i \in 1 .. Len(after) : after[i] = e))

NarrowedCatalog(catalog, before, after) == catalog

\* What an iteration did, seen from outside.
StepKind(before, after) ==
    IF len(after.selected) > len(before.selected) THEN "added"
    ELSE IF Len(after.pool) < Len(before.pool) THEN "pruned"
    ELSE "noop"

\* ------------------------------------------------------------------- state
VARIABLES
    roles,            \* Generator.roles: the role catalog, a list
    professions,      \* Generator.professions: the profession catalog
    num_players,      \* the argument of generate_characters
    pc,               \* where the call is: start, pick_roles,
                      \* choose_professions, done (returned), failed (raised)
    phase,            \* the selection under way: GOOD, EVIL, NEUTRAL (the
                      \* three pick_roles calls), PROFESSIONS, or NONE
    tier,             \* the local tier of generate_characters, NONE before
    pool,             \* the local pool of the selection under way
    count,            \* its requested count
    selected,         \* its local selected
    selected_counts,  \* its local selected_counts
    chosen_roles,     \* the outer selected of _choose_roles
    characters,       \* the value generate_characters returns
    drawn,            \* whether random.choice was called in this call
    last_step,        \* what the last loop iteration did (StepKind)
    attempt,          \* 1 for a call, 2 for its retry on the same inputs
    first_outcome,    \* how attempt 1 ended, kept while attempt 2 runs
    draw_log,         \* the indices random.choice gave in attempt 1, when
                      \* they are recorded to be given again
    replayed,         \* how many of them attempt 2 has been given
    first_characters, \* what attempt 1 returned, when draws are recorded
    loader,           \* a call of Parser.parse_roles / parse_professions
    writer            \* a call of PlayerWriter.write_players followed by
                      \* NarratorWriter.write_narrator

\* the state outside a call of generate_characters and its retry
aux == <<draw_log, replayed, first_characters, loader, writer>>

vars == <<roles, professions, num_players, pc, phase, tier, pool, count,
          selected, selected_counts, chosen_roles, characters, drawn,
          last_step, attempt, first_outcome, aux>>

NoCharacters == [len |-> 0, roles |-> Counter, professions |-> Counter]
NoOutcome == [pc |-> "none", phase |-> "NONE"]
NoLoader == [pc |-> "idle", kind |-> "none", data |-> <<>>, i |-> 1, error |-> "none"]
NoWriter ==
    [pc |-> "idle", players |-> 0, i |-> 1, tex_written |-> <<>>,
     attempted |-> <<>>, runs |-> <<>>, printed |-> <<>>, narrator |-> "none"]

\* ----------------------------------------------------------------- inputs
Players == (0 - 1) .. MaxPlayers
SmallPlayers == 4 .. MaxSmallPlayers
Shapes == (0 .. MaxCap) \X (0 .. MaxMin)
Pools == Alignments \cup {"PROFESSIONS"}

\* a tier_distribution with the same capacity at every tier
EveryTier(c) == [t \in Tiers |-> c]
\* a tier_distribution that names one tier only
OnlyAt(t, c) == [x \in {t} |-> c]

Prefix(alignment) ==
    CASE alignment = "GOOD" -> <<"g1", "g2">>
      [] alignment = "EVIL" -> <<"e1", "e2">>
      [] alignment = "NEUTRAL" -> <<"n1", "n2">>

\* Small catalogs: one pool holds two entries of any shape <<capacity,
\* min_number>>, every other pool holds one entry that can fill any count.
SmallRolesOf(alignment, n, which, s1, s2) ==
    IF which = alignment
    THEN <<Role(Prefix(alignment)[1], alignment, EveryTier(s1[1]), s1[2]),
           Role(Prefix(alignment)[2], alignment, EveryTier(s2[1]), s2[2])>>
    ELSE <<Role(Prefix(alignment)[1], alignment, EveryTier(n), 0)>>

SmallRoles(n, which, s1, s2) ==
    SmallRolesOf("GOOD", n, which, s1, s2)
        \o SmallRolesOf("EVIL", n, which, s1, s2)
        \o SmallRolesOf("NEUTRAL", n, which, s1, s2)

SmallProfessions(n, which, s1, s2) ==
    IF which = "PROFESSIONS"
    THEN <<Profession("p1", EveryTier(s1[1]), s1[2]),
           Profession("p2", EveryTier(s2[1]), s2[2])>>
    ELSE <<Profession("p1", EveryTier(n), 0)>>

\* Catalogs written for one tier t and n players: every pool holds two
\* entries without a minimum whose capacities at t add up to the pool's
\* share of n players plus slack; no entry names another tier.
Halves(t, q, slack) ==
    <<OnlyAt(t, Max(0, (q + 1) \div 2)), OnlyAt(t, Max(0, (q \div 2) + slack))>>

Share(alignment, n) ==
    CASE alignment = "GOOD" -> n - (n \div 3) - (n \div 6)
      [] alignment = "EVIL" -> n \div 3
      [] alignment = "NEUTRAL" -> n \div 6

TierRolesOf(alignment, n, t, slack) ==
    LET h == Halves(t, Share(alignment, n), slack)
    IN <<Role(Prefix(alignment)[1], alignment, h[1], 0),
         Role(Prefix(alignment)[2], alignment, h[2], 0)>>

TierRoles(n, t, slack) ==
    TierRolesOf("GOOD", n, t, slack) \o TierRolesOf("EVIL", n, t, slack)
        \o TierRolesOf("NEUTRAL", n, t, slack)

TierProfessions(n, t, slack) ==
    LET h == Halves(t, n, slack)
    IN <<Profession("p1", h[1], 0), Profession("p2", h[2], 0)>>

Catalogs ==
    {[n |-> n, roles |-> SmallRoles(n, w, s1, s2),
      professions |-> SmallProfessions(n, w, s1, s2)] :
        n \in SmallPlayers, w \in Pools, s1 \in Shapes, s2 \in Shapes}
    \cup
    {[n |-> n, roles |-> TierRoles(n, t, k - 1),
      professions |-> TierProfessions(n, t, k - 1)] :
        n \in Players, t \in Tiers, k \in 0 .. 2}

\* ------------------------------------------------------------------- Init
Init ==
    /\ \E c \in Catalogs :
        /\ roles = c.roles
        /\ professions = c.professions
        /\ num_players = c.n
    /\ pc = "start"
    /\ phase = "NONE"
    /\ tier = "NONE"
    /\ pool = <<>>
    /\ count = 0
    /\ selected = Counter
    /\ selected_counts = Counter
    /\ chosen_roles = Counter
    /\ characters = NoCharacters
    /\ drawn = FALSE
    /\ last_step = "none"
    /\ attempt = 1
    /\ first_outcome = NoOutcome
    /\ draw_log = <<>>
    /\ replayed = 0
    /\ first_characters = NoCharacters
    /\ loader = NoLoader
    /\ writer = NoWriter

\* ---------------------------------------------------------------- actions
LoopState == [selected |-> selected, selected_counts |-> selected_counts,
              pool |-> pool]

\* generate_characters up to the first test of the while loop of
\* pick_roles(good_roles, num_good)
GenerateCharacters ==
    /\ pc = "start"
    /\ IF TooFewPlayers(num_players)
       THEN /\ pc' = "failed"
            /\ UNCHANGED <<phase, tier, pool, count>>
       ELSE /\ pc' = "pick_roles"
            /\ tier' = get_tier(num_players)
            /\ phase' = "GOOD"
            /\ pool' = AlignmentPool(roles, "GOOD", tier')
            /\ count' = Quota("GOOD", num_players)
    /\ UNCHANGED <<roles, professions, num_players, selected,
                   selected_counts, chosen_roles, characters, drawn,
                   last_step, attempt, first_outcome, aux>>

\* pick_roles: one iteration of the while loop, random.choice giving
\* the i-th entry of the pool
PickRolesStep(i) ==
    /\ pc = "pick_roles"
    /\ len(selected) < count
    /\ pool # <<>>
    /\ i \in 1 .. Len(pool)
    /\ LET after == PickRolesIteration(LoopState, count, tier, pool[i])
       IN /\ selected' = after.selected
          /\ selected_counts' = after.selected_counts
          /\ pool' = after.pool
          /\ last_step' = StepKind(LoopState, after)
          /\ roles' = NarrowedCatalog(roles, pool, after.pool)
    /\ drawn' = TRUE
    /\ UNCHANGED <<professions, num_players, pc, phase, tier, count,
                   chosen_roles, characters, attempt, first_outcome>>

PickRolesDraw ==
    /\ \E i \in 1 .. Len(pool) : PickRolesStep(i)
    /\ UNCHANGED aux

\* pick_roles: the pool is empty before the count is reached
PickRolesRaise_whenever_pool_empty ==
    /\ pc = "pick_roles"
    /\ pool = <<>>
    /\ pc' = "failed"
    /\ UNCHANGED <<roles, professions, num_players, phase, tier, pool, count,
                   selected, selected_counts, chosen_roles, characters,
                   drawn, last_step, attempt, first_outcome, aux>>

PickRolesRaise ==
    /\ pc = "pick_roles"
    /\ len(selected) < count
    /\ pool = <<>>
    /\ pc' = "failed"
    /\ UNCHANGED <<roles, professions, num_players, phase, tier, pool, count,
                   selected, selected_counts, chosen_roles, characters,
                   drawn, last_step, attempt, first_outcome, aux>>

NextAlignment(alignment) == IF alignment = "GOOD" THEN "EVIL" ELSE "NEUTRAL"

\* pick_roles returns; _choose_roles extends its list and calls the next
\* pick_roles, or returns and _choose_professions starts
PickRolesReturn ==
    /\ pc = "pick_roles"
    /\ ~(len(selected) < count)
    /\ chosen_roles' = Concat(chosen_roles, selected)
    /\ selected' = Counter
    /\ selected_counts' = Counter
    /\ last_step' = "none"
    /\ IF phase = "NEUTRAL"
       THEN /\ pc' = "choose_professions"
            /\ phase' = "PROFESSIONS"
            /\ pool' = ProfessionPool(professions, tier)
            /\ count' = num_players
       ELSE /\ pc' = "pick_roles"
            /\ phase' = NextAlignment(phase)
            /\ pool' = AlignmentPool(roles, phase', tier)
            /\ count' = Quota(phase', num_players)
    /\ UNCHANGED <<roles, professions, num_players, tier, characters, drawn,
                   attempt, first_outcome, aux>>

\* _choose_professions: one iteration of the while loop, random.choice
\* giving the i-th entry of the pool
ChooseProfessionsStep(i) ==
    /\ pc = "choose_professions"
    /\ len(selected) < count
    /\ pool # <<>>
    /\ i \in 1 .. Len(pool)
    /\ LET after == ChooseProfessionsIteration(LoopState, count, tier, pool[i])
       IN /\ selected' = after.selected
          /\ selected_counts' = after.selected_counts
          /\ pool' = after.pool
          /\ last_step' = StepKind(LoopState, after)
          /\ professions' = NarrowedCatalog(professions, pool, after.pool)
    /\ drawn' = TRUE
    /\ UNCHANGED <<roles, num_players, pc, phase, tier, count,
                   chosen_roles, characters, attempt, first_outcome>>

ChooseProfessionsDraw ==
    /\ \E i \in 1 .. Len(pool) : ChooseProfessionsStep(i)
    /\ UNCHANGED aux

\* _choose_professions: the pool is empty before the count is reached
ChooseProfessionsRaise ==
    /\ pc = "choose_professions"
    /\ len(selected) < count
    /\ pool = <<>>
    /\ pc' = "failed"
    /\ UNCHANGED <<roles, professions, num_players, phase, tier, pool, count,
                   selected, selected_counts, chosen_roles, characters,
                   drawn, last_step, attempt, first_outcome, aux>>

\* zip(professions, roles): as many Characters as the shorter list holds
Pair(profs, rls) ==
    [len |-> Min(len(profs), len(rls)), roles |-> rls, professions |-> profs]

\* _choose_professions returns; generate_characters pairs and returns
ChooseProfessionsReturn ==
    /\ pc = "choose_professions"
    /\ ~(len(selected) < count)
    /\ characters' = Pair(selected, chosen_roles)
    /\ pc' = "done"
    /\ UNCHANGED <<roles, professions, num_players, phase, tier, pool, count,
                   selected, selected_counts, chosen_roles, drawn, last_step,
                   attempt, first_outcome, aux>>

Next ==
    \/ GenerateCharacters
    \/ PickRolesDraw
    \/ PickRolesRaise
    \/ PickRolesReturn
    \/ ChooseProfessionsDraw
    \/ ChooseProfessionsRaise
    \/ ChooseProfessionsReturn

Spec == Init /\ [][Next]_vars

\* The caller calls generate_characters again on the same Generator with
\* the same num_players once the first call has returned or raised.
Retry ==
    /\ attempt = 1
    /\ pc \in {"done", "failed"}
    /\ attempt' = 2
    /\ first_outcome' = [pc |-> pc, phase |-> phase]
    /\ pc' = "start"
    /\ phase' = "NONE"
    /\ tier' = "NONE"
    /\ pool' = <<>>
    /\ count' = 0
    /\ selected' = Counter
    /\ selected_counts' = Counter
    /\ chosen_roles' = Counter
    /\ characters' = NoCharacters
    /\ drawn' = FALSE
    /\ last_step' = "none"
    /\ UNCHANGED <<roles, professions, num_players, aux>>

NextWithRetry ==
    \/ Next
    \/ Retry

RetrySpec == Init /\ [][NextWithRetry]_vars

\* ------------------------------------------- a call and its seeded re-run
\* The caller seeds the random module, calls generate_characters, seeds it
\* again with the same seed and calls again on the same Generator: the
\* second call is given the draws of the first, in order.
ReplayCatalogs ==
    {[n |-> n, roles |-> SmallRoles(n, w, s1, s2),
      professions |-> SmallProfessions(n, w, s1, s2)] :
        n \in 4 .. MaxReplayPlayers, w \in Pools, s1 \in Shapes, s2 \in Shapes}

ReplayInit ==
    /\ Init
    /\ \E c \in ReplayCatalogs :
        /\ roles = c.roles
        /\ professions = c.professions
        /\ num_players = c.n

\* first call: random.choice gives any entry, and the draw is recorded
RecordedPickRolesDraw ==
    /\ attempt = 1
    /\ Len(draw_log) < MaxDraws
    /\ \E i \in 1 .. Len(pool) :
        /\ PickRolesStep(i)
        /\ draw_log' = Append(draw_log, i)
    /\ UNCHANGED <<replayed, first_characters, loader, writer>>

RecordedChooseProfessionsDraw ==
    /\ attempt = 1
    /\ Len(draw_log) < MaxDraws
    /\ \E i \in 1 .. Len(pool) :
        /\ ChooseProfessionsStep(i)
        /\ draw_log' = Append(draw_log, i)
    /\ UNCHANGED <<replayed, first_characters, loader, writer>>

\* second call: random.choice gives what it gave the first call
ReplayedPickRolesDraw ==
    /\ attempt = 2
    /\ replayed < Len(draw_log)
    /\ PickRolesStep(draw_log[replayed + 1])
    /\ replayed' = replayed + 1
    /\ UNCHANGED <<draw_log, first_characters, loader, writer>>

ReplayedChooseProfessionsDraw ==
    /\ attempt = 2
    /\ replayed < Len(draw_log)
    /\ ChooseProfessionsStep(draw_log[replayed + 1])
    /\ replayed' = replayed + 1
    /\ UNCHANGED <<draw_log, first_characters, loader, writer>>

\* the second call starts: its locals are new, the Generator is the same
ReplayRetry_keeps_selection ==
    /\ attempt = 1
    /\ pc \in {"done", "failed"}
    /\ attempt' = 2
    /\ first_outcome' = [pc |-> pc, phase |-> phase]
    /\ first_characters' = characters
    /\ pc' = "start"
    /\ phase' = "NONE"
    /\ tier' = "NONE"
    /\ pool' = <<>>
    /\ count' = 0
    /\ chosen_roles' = Counter
    /\ characters' = NoCharacters
    /\ drawn' = FALSE
    /\ last_step' = "none"
    /\ UNCHANGED <<roles, professions, num_players, selected, selected_counts,
                   draw_log, replayed, loader, writer>>

ReplayRetry ==
    /\ attempt = 1
    /\ pc \in {"done", "failed"}
    /\ attempt' = 2
    /\ first_outcome' = [pc |-> pc, phase |-> phase]
    /\ first_characters' = characters
    /\ pc' = "start"
    /\ phase' = "NONE"
    /\ tier' = "NONE"
    /\ pool' = <<>>
    /\ count' = 0
    /\ selected' = Counter
    /\ selected_counts' = Counter
    /\ chosen_roles' = Counter
    /\ characters' = NoCharacters
    /\ drawn' = FALSE
    /\ last_step' = "none"
    /\ UNCHANGED <<roles, professions, num_players, draw_log, replayed,
                   loader, writer>>

NextReplay ==
    \/ GenerateCharacters
    \/ RecordedPickRolesDraw
    \/ ReplayedPickRolesDraw
    \/ PickRolesRaise
    \/ PickRolesReturn
    \/ RecordedChooseProfessionsDraw
    \/ ReplayedChooseProfessionsDraw
    \/ ChooseProfessionsRaise
    \/ ChooseProfessionsReturn
    \/ ReplayRetry

ReplaySpec == ReplayInit /\ [][NextReplay]_vars

\* ----------------------------------------------------------- the loader
\* Parser.parse_roles and Parser.parse_professions read a JSON list of
\* objects.  An object is modelled by the set of its keys and the values of
\* the keys the loader looks up in an enumeration.
WinConditions ==
    {"ELIMINATE_ALL_EVILS", "ELIMINATE_ALL_GOOD", "SURVIVE", "VOTED_OUT",
     "LAST_NEUTRAL"}

AbilityTypes ==
    {"DEATH_TRIGGER", "DUSK_CHOICE", "MIDNIGHT_CHOICE", "PREDAWN_CHOICE",
     "ONE_TIME", "PASSIVE", "VOTE", "INITIAL_KNOWLEDGE"}

\* Enum.__getitem__: the member of that name, or KeyError
Lookup(enum, name) == IF name \in enum THEN "none" ELSE "KeyError"

\* the first error in a sequence of outcomes, "none" if there is none
RECURSIVE FirstError(_)
FirstError(outcomes) ==
    IF outcomes = <<>> THEN "none"
    ELSE IF Head(outcomes) # "none" THEN Head(outcomes)
    ELSE FirstError(Tail(outcomes))

\* Ability(ability_type=AbilityType[ability["ability_type"]],
\*         effect=ability["effect"], ...)
ParseAbility(ability) ==
    FirstError(<<
        IF "ability_type" \in ability.keys THEN "none" ELSE "KeyError",
        Lookup(AbilityTypes, ability.ability_type),
        IF "effect" \in ability.keys THEN "none" ELSE "KeyError">>)

ParseAbilities(abilities_data) ==
    FirstError([k \in 1 .. Len(abilities_data) |-> ParseAbility(abilities_data[k])])

\* Tier[tier_str] with KeyError turned into ConfigError
ParseTierDistribution(tier_data) ==
    FirstError([k \in 1 .. Len(tier_data) |->
        IF Lookup(Tiers, tier_data[k]) = "KeyError" THEN "ConfigError" ELSE "none"])

RequiredKeys(kind) ==
    IF kind = "roles" THEN {"name", "alignment", "tier_distribution"}
    ELSE {"name", "tier_distribution"}

\* the body of the for loop of parse_roles, in the order it is evaluated
ParseRole(entry) ==
    FirstError(<<
        IF RequiredKeys("roles") \subseteq entry.keys THEN "none" ELSE "ConfigError",
        Lookup(Alignments, entry.alignment),
        IF "abilities_list" \in entry.keys
            THEN ParseAbilities(entry.abilities_list) ELSE "none",
        ParseTierDistribution(entry.tier_distribution),
        IF "win_condition" \in entry.keys
            THEN Lookup(WinConditions, entry.win_condition) ELSE "none">>)

\* the body of the for loop of parse_professions
ParseProfession(entry) ==
    FirstError(<<
        IF RequiredKeys("professions") \subseteq entry.keys THEN "none" ELSE "ConfigError",
        IF "abilities_list" \in entry.keys
            THEN ParseAbilities(entry.abilities_list) ELSE "none",
        ParseTierDistribution(entry.tier_distribution)>>)

ParseEntry(kind, entry) ==
    IF kind = "roles" THEN ParseRole(entry) ELSE ParseProfession(entry)

\* the JSON objects a catalog file is made of; a key that is absent has
\* the empty value
AbilityKeys == {"ability_type", "effect"}
EntryKeys == {"name", "alignment", "tier_distribution", "abilities_list", "win_condition"}

AbilityObjects ==
    {a \in [keys : SUBSET AbilityKeys, ability_type : {"", "PASSIVE", "MAGIC"}] :
        (a.ability_type = "") <=> ("ability_type" \notin a.keys)}

GoodAbility == [keys |-> AbilityKeys, ability_type |-> "PASSIVE"]

AbilityLists ==
    {<<>>} \cup {<<a>> : a \in AbilityObjects}
           \cup {<<GoodAbility, a>> : a \in AbilityObjects}

TierObjects == {<<>>, <<"TIER1">>, <<"TIER9">>, <<"TIER1", "TIER9">>}

EntryObjects ==
    {e \in [keys : SUBSET EntryKeys,
            alignment : {"", "GOOD", "CHAOTIC"},
            tier_distribution : TierObjects,
            abilities_list : AbilityLists,
            win_condition : {"", "SURVIVE", "DRAW"}] :
        /\ (e.alignment = "") <=> ("alignment" \notin e.keys)
        /\ (e.win_condition = "") <=> ("win_condition" \notin e.keys)
        /\ ("tier_distribution" \notin e.keys) => e.tier_distribution = <<>>
        /\ ("abilities_list" \notin e.keys) => e.abilities_list = <<>>}

GoodEntry ==
    [keys |-> {"name", "alignment", "tier_distribution"}, alignment |-> "GOOD",
     tier_distribution |-> <<"TIER1">>, abilities_list |-> <<>>,
     win_condition |-> ""]

\* a file of up to MaxValidBefore good entries followed by any entry
CatalogFiles ==
    {[k \in 1 .. (n + 1) |-> IF k <= n THEN GoodEntry ELSE e] :
        n \in 0 .. MaxValidBefore, e \in EntryObjects}

\* the state outside the loader when only the loader runs
NoGenerator ==
    /\ roles = <<>>
    /\ professions = <<>>
    /\ num_players = 0
    /\ pc = "start"
    /\ phase = "NONE"
    /\ tier = "NONE"
    /\ pool = <<>>
    /\ count = 0
    /\ selected = Counter
    /\ selected_counts = Counter
    /\ chosen_roles = Counter
    /\ characters = NoCharacters
    /\ drawn = FALSE
    /\ last_step = "none"
    /\ attempt = 1
    /\ first_outcome = NoOutcome
    /\ draw_log = <<>>
    /\ replayed = 0
    /\ first_characters = NoCharacters

generator == <<roles, professions, num_players, pc, phase, tier, pool, count,
               selected, selected_counts, chosen_roles, characters, drawn,
               last_step, attempt, first_outcome, draw_log, replayed,
               first_characters>>

\* json.load has returned the list of a roles file or a professions file
LoaderInit ==
    /\ NoGenerator
    /\ writer = NoWriter
    /\ \E kind \in {"roles", "professions"}, data \in CatalogFiles :
        loader = [pc |-> "parsing", kind |-> kind, data |-> data, i |-> 1,
                  error |-> "none"]

\* one iteration of the for loop: the entry is appended, or an error leaves
\* the function
LoaderEntry ==
    /\ loader.pc = "parsing"
    /\ loader.i <= Len(loader.data)
    /\ LET error == ParseEntry(loader.kind, loader.data[loader.i])
       IN loader' = IF error = "none"
                    THEN [loader EXCEPT !.i = loader.i + 1]
                    ELSE [loader EXCEPT !.pc = "raised", !.error = error]
    /\ UNCHANGED <<generator, writer>>

\* the for loop is over: the list is returned
LoaderReturn ==
    /\ loader.pc = "parsing"
    /\ loader.i > Len(loader.data)
    /\ loader' = [loader EXCEPT !.pc = "returned"]
    /\ UNCHANGED <<generator, writer>>

NextLoader ==
    \/ LoaderEntry
    \/ LoaderReturn

LoaderSpec == LoaderInit /\ [][NextLoader]_vars

\* ---------------------------------------------------------- the writers
\* What the environment does to one call of _run_pdflatex: whether
\* shutil.which finds the command and, if so, the return codes of the
\* passes that are run (the second pass is not run after a failed first).
PdflatexRuns ==
    {[found |-> FALSE, returncodes |-> <<>>],
     [found |-> TRUE, returncodes |-> <<0, 0>>],
     [found |-> TRUE, returncodes |-> <<0, 1>>],
     [found |-> TRUE, returncodes |-> <<1>>]}

\* _run_pdflatex: what it raises
RunPdflatex(run) ==
    IF ~run.found THEN "RuntimeError"
    ELSE IF \E pass_no \in 1 .. Len(run.returncodes) : run.returncodes[pass_no] # 0
         THEN "RuntimeError"
         ELSE "none"

\* try: self._run_pdflatex(...) except Exception as e: print(...): what
\* leaves the try statement when its body raised error
AfterTry_not_caught(error) == error

AfterTry(error) == "none"

\* the line the try statement prints
Printed(error) == IF error = "none" THEN "generated" ELSE "error"

\* main.py has computed the players and calls write_players
WriterInit ==
    /\ NoGenerator
    /\ loader = NoLoader
    /\ \E n \in 0 .. MaxWriterPlayers :
        writer = [NoWriter EXCEPT !.pc = "write_players", !.players = n]

\* write_players: one iteration of the for loop
WritePlayer ==
    /\ writer.pc = "write_players"
    /\ writer.i <= writer.players
    /\ \E run \in PdflatexRuns :
        LET error == RunPdflatex(run)
        IN writer' = [writer EXCEPT
                !.tex_written = Append(writer.tex_written, writer.i),
                !.attempted = Append(writer.attempted, writer.i),
                !.runs = Append(writer.runs, run),
                !.printed = Append(writer.printed, Printed(error)),
                !.i = IF AfterTry(error) = "none" THEN writer.i + 1 ELSE writer.i,
                !.pc = IF AfterTry(error) = "none" THEN "write_players" ELSE "aborted"]
    /\ UNCHANGED <<generator, loader>>

\* write_players returns; main.py goes on to write_narrator
WritePlayersReturn ==
    /\ writer.pc = "write_players"
    /\ writer.i > writer.players
    /\ writer' = [writer EXCEPT !.pc = "write_narrator"]
    /\ UNCHANGED <<generator, loader>>

\* write_narrator: the script is written and compiled
WriteNarrator ==
    /\ writer.pc = "write_narrator"
    /\ \E run \in PdflatexRuns :
        LET error == RunPdflatex(run)
        IN writer' = [writer EXCEPT
                !.runs = Append(writer.runs, run),
                !.narrator = Printed(error),
                !.pc = IF AfterTry(error) = "none" THEN "returned" ELSE "aborted"]
    /\ UNCHANGED <<generator, loader>>

NextWriter ==
    \/ WritePlayer
    \/ WritePlayersReturn
    \/ WriteNarrator

WriterSpec == WriterInit /\ [][NextWriter]_vars

\* ------------------------------------------------------- reading a state
Rank(ph) ==
    CASE ph = "NONE" -> 0
      [] ph = "GOOD" -> 1
      [] ph = "EVIL" -> 2
      [] ph = "NEUTRAL" -> 3
      [] ph = "PROFESSIONS" -> 4

InLoop == pc \in {"pick_roles", "choose_professions"}

\* the selection for pool ph has returned its list
Returned(ph) == pc = "done" \/ (Rank(phase) > Rank(ph))

\* the selection for pool ph raised ConfigError
Raised(ph) == pc = "failed" /\ phase = ph

\* the list the selection for pool ph returned
Result(ph) == IF ph = "PROFESSIONS" THEN characters.professions ELSE chosen_roles

\* the pool and the count the selection for pool ph is called with
StartPool(ph) ==
    IF ph = "PROFESSIONS" THEN ProfessionPool(professions, tier)
    ELSE AlignmentPool(roles, ph, tier)

StartCount(ph) ==
    IF ph = "PROFESSIONS" THEN num_players ELSE Quota(ph, num_players)

Range(seq) == {seq[i] : i \in 1 .. Len(seq)}

Capacity(e) == Get(e.tier_distribution, tier)

RECURSIVE TotalCapacity(_)
TotalCapacity(seq) ==
    IF seq = <<>> THEN 0 ELSE Capacity(Head(seq)) + TotalCapacity(Tail(seq))

\* the number of roles of one alignment in a bag of role names
AlignmentCount(bag, alignment) ==
    SumOver(bag, {r.name : r \in {x \in Range(roles) : x.alignment = alignment}})

\* the data model's invariant on an entry: at every tier where the entry is
\* available its min_number does not exceed its capacity
MinWithinCapacity(e) ==
    \A t \in DOMAIN e.tier_distribution :
        e.tier_distribution[t] = 0 \/ e.min_number <= e.tier_distribution[t]

WellFormedCatalogs ==
    \A e \in Range(roles) \cup Range(professions) : MinWithinCapacity(e)

\* ----------------------------------------------------------------- claims

\* C1: a call that returns returns exactly num_players Characters, made of
\* exactly num_players roles and num_players professions, and inside either
\* selection loop the number of selected items never exceeds the count.
C1_ExactlyNCharacters ==
    /\ InLoop => len(selected) <= count
    /\ pc = "done" =>
        /\ characters.len = num_players
        /\ len(characters.roles) = num_players
        /\ len(characters.professions) = num_players

\* a call returned after a minimum of two copies was locked in
C1_Witness ==
    /\ pc = "done"
    /\ \/ \E r \in Range(roles) :
            r.min_number = 2 /\ characters.roles[r.name] >= 2
       \/ \E p \in Range(professions) :
            p.min_number = 2 /\ characters.professions[p.name] >= 2

\* C2: no entry is selected more often than its capacity at the active
\* tier, after every iteration of both loops and in the returned list.
C2_WithinCapacity ==
    /\ InLoop =>
        \A e \in Range(StartPool(phase)) : selected_counts[e.name] <= Capacity(e)
    /\ pc = "done" =>
        /\ \A r \in Range(roles) : characters.roles[r.name] <= Capacity(r)
        /\ \A p \in Range(professions) :
            characters.professions[p.name] <= Capacity(p)

\* C3: in every returned selection each entry occurs zero times or at least
\* min_number times; a pool of one entry with capacity 2 and min_number 2
\* asked for 2 items gives exactly two copies of it and never raises.
C3_ZeroOrMinimum ==
    \A ph \in Pools :
        /\ Returned(ph) =>
            \A e \in Range(StartPool(ph)) :
                Result(ph)[e.name] = 0 \/ Result(ph)[e.name] >= e.min_number
        /\ ( /\ tier # "NONE"
             /\ Len(StartPool(ph)) = 1
             /\ Capacity(StartPool(ph)[1]) = 2
             /\ StartPool(ph)[1].min_number = 2
             /\ StartCount(ph) = 2 ) =>
            /\ ~Raised(ph)
            /\ Returned(ph) => Result(ph)[StartPool(ph)[1].name] = 2

\* the one-entry pool (capacity 2, min_number 2) asked for 2 has returned
C3_Witness ==
    \E ph \in Pools :
        /\ Returned(ph)
        /\ Len(StartPool(ph)) = 1
        /\ Capacity(StartPool(ph)[1]) = 2
        /\ StartPool(ph)[1].min_number = 2
        /\ StartCount(ph) = 2
        /\ Result(ph)[StartPool(ph)[1].name] = 2

\* C4: the returned Characters hold floor(n/3) EVIL roles, floor(n/6)
\* NEUTRAL roles and n - floor(n/3) - floor(n/6) GOOD roles; for n = 12
\* that is 6 good, 4 evil and 2 neutral.
C4_AlignmentQuotas ==
    pc = "done" =>
        /\ AlignmentCount(characters.roles, "EVIL") = num_players \div 3
        /\ AlignmentCount(characters.roles, "NEUTRAL") = num_players \div 6
        /\ AlignmentCount(characters.roles, "GOOD")
             = num_players - (num_players \div 3) - (num_players \div 6)
        /\ AlignmentCount(characters.roles, "GOOD")
             + AlignmentCount(characters.roles, "EVIL")
             + AlignmentCount(characters.roles, "NEUTRAL") = num_players
        /\ num_players = 12 =>
            /\ AlignmentCount(characters.roles, "GOOD") = 6
            /\ AlignmentCount(characters.roles, "EVIL") = 4
            /\ AlignmentCount(characters.roles, "NEUTRAL") = 2

\* a call for 12 players returned
C4_Witness ==
    /\ pc = "done"
    /\ num_players = 12
    /\ AlignmentCount(characters.roles, "EVIL") = 4

\* the loop under way cannot leave its present state: whatever entry is
\* drawn, the iteration adds nothing and removes nothing
Iteration(e) ==
    IF pc = "pick_roles" THEN PickRolesIteration(LoopState, count, tier, e)
    ELSE ChooseProfessionsIteration(LoopState, count, tier, e)

LoopsForever ==
    /\ InLoop
    /\ len(selected) < count
    /\ pool # <<>>
    /\ \A e \in Range(pool) : Iteration(e) = LoopState

\* C5: every iteration of either loop adds an item or removes an entry from
\* the pool, and no loop reaches a state it can never leave (stated for
\* catalogs whose min_numbers are within the capacities, where the claim
\* already fails).
C5_EveryIterationProgresses ==
    WellFormedCatalogs =>
        /\ last_step # "noop"
        /\ ~LoopsForever

\* C6: a selection asked for more items than the total capacity of its
\* filtered pool at the active tier never returns a list.
C6_UnderProvisionedRaises ==
    \A ph \in Pools :
        (tier # "NONE" /\ StartCount(ph) > TotalCapacity(StartPool(ph)))
            => ~Returned(ph)

\* how the first call ended, seen from its retry
FirstRaised(ph) ==
    attempt = 2 /\ first_outcome.pc = "failed" /\ first_outcome.phase = ph

FirstReturned(ph) ==
    /\ attempt = 2
    /\ first_outcome.pc = "done" \/ Rank(first_outcome.phase) > Rank(ph)

SameOutcome(ph) ==
    /\ FirstRaised(ph) => ~Returned(ph)
    /\ FirstReturned(ph) => ~Raised(ph)

\* C7 (as claimed): if the selection for a pool raised in one call, it does
\* not return in a retry of the call on the same catalogs and count, and
\* the other way round (stated for catalogs whose min_numbers are within
\* the capacities, where the claim already fails).
C7_FailureIndependentOfDraws ==
    WellFormedCatalogs => \A ph \in Pools : SameOutcome(ph)

AllMinAtMostOne(seq) == \A e \in Range(seq) : e.min_number <= 1

\* C7, the part of it the code does satisfy: for a pool whose entries all
\* have min_number <= 1 the selection raises in a call exactly when it
\* raises in the retry, and it raises exactly when the count exceeds the
\* pool's total capacity.
C7_FailureIndependentWhenMinAtMostOne ==
    \A ph \in Pools :
        (tier # "NONE" /\ AllMinAtMostOne(StartPool(ph))) =>
            /\ SameOutcome(ph)
            /\ Raised(ph) => StartCount(ph) > TotalCapacity(StartPool(ph))
            /\ Returned(ph) => StartCount(ph) <= TotalCapacity(StartPool(ph))

\* a retry raised where the first call raised, on a pool of two entries
\* with min_number <= 1 and positive capacity
C7_Witness ==
    \E ph \in Pools :
        /\ FirstRaised(ph)
        /\ Raised(ph)
        /\ Len(StartPool(ph)) = 2
        /\ AllMinAtMostOne(StartPool(ph))
        /\ \E e \in Range(StartPool(ph)) : e.min_number = 1
        /\ drawn

\* C8: a call with fewer than 4 players raises before it classifies the
\* tier, selects anything or draws, and returns no Characters.
C8_TooFewPlayersRaises ==
    num_players < 4 =>
        /\ pc \in {"start", "failed"}
        /\ tier = "NONE"
        /\ phase = "NONE"
        /\ ~drawn
        /\ selected = Counter
        /\ chosen_roles = Counter
        /\ characters = NoCharacters

\* a call with 3 players has raised
C8_Witness == pc = "failed" /\ num_players = 3 /\ tier = "NONE"

\* C9: the classifier maps 4..7 to TIER1, 8..11 to TIER2, 12..15 to TIER3
\* and 16 and more to TIER4, one tier for each count.
C9_TierPartition ==
    (num_players >= 4 /\ pc # "start") =>
        /\ tier \in Tiers
        /\ tier = "TIER1" <=> num_players \in 4 .. 7
        /\ tier = "TIER2" <=> num_players \in 8 .. 11
        /\ tier = "TIER3" <=> num_players \in 12 .. 15
        /\ tier = "TIER4" <=> num_players >= 16

\* 15 players were classified TIER3
C9_Witness == num_players = 15 /\ tier = "TIER3" /\ pc = "done"

\* every entry has min_number 0 and, at the active tier, every alignment
\* pool holds its share of the players and the profession pool all of them
RichCatalog ==
    /\ \A e \in Range(roles) \cup Range(professions) : e.min_number = 0
    /\ \A a \in Alignments :
        TotalCapacity(AlignmentPool(roles, a, tier)) >= Share(a, num_players)
    /\ TotalCapacity(ProfessionPool(professions, tier)) >= num_players

\* C10: with a rich catalog a call for 4, 15 or 16 players never raises
\* and never stops making progress.
C10_RichCatalogSucceeds ==
    (num_players \in {4, 15, 16} /\ tier # "NONE" /\ RichCatalog) =>
        /\ pc # "failed"
        /\ InLoop /\ len(selected) < count => pool # <<>>
        /\ last_step # "noop"

\* a call for 16 players returned from a catalog with no capacity to spare
C10_Witness ==
    /\ pc = "done"
    /\ num_players = 16
    /\ RichCatalog
    /\ TotalCapacity(ProfessionPool(professions, tier)) = num_players
    /\ characters.len = 16

\* C12: generate_characters leaves the Generator's catalogs as they were:
\* no step of a call, whether the call goes on to return or to raise,
\* changes the roles list or the professions list (entries, order,
\* tier_distribution, min_number); narrowing acts on the local pool only.
C12_CatalogsUnchanged ==
    [][roles' = roles /\ professions' = professions]_vars

\* a call has ended after its pool was narrowed
C12_Witness ==
    /\ pc \in {"done", "failed"}
    /\ drawn
    /\ Len(pool) < Len(StartPool(phase))
    /\ Len(roles) > 0
    /\ Len(professions) > 0

\* C14: a selection whose count is 0 returns the empty list: it does not
\* raise, and while it is active nothing has been drawn, the pool is the one
\* it was called with and nothing is selected, even when that pool is empty.
\* With 4 or 5 players the NEUTRAL count is 0, so the call never fails
\* in the NEUTRAL selection.
C14_ZeroCountReturnsEmpty ==
    /\ (InLoop /\ count = 0) =>
           /\ last_step = "none"
           /\ pool = StartPool(phase)
           /\ selected = Counter
    /\ \A alignment \in Alignments :
           (tier # "NONE" /\ StartCount(alignment) = 0) =>
               /\ ~Raised(alignment)
               /\ Returned(alignment) => AlignmentCount(chosen_roles, alignment) = 0
    /\ num_players \in {4, 5} => ~Raised("NEUTRAL")

\* a call with 4 players and no NEUTRAL role at its tier has returned
C14_Witness ==
    /\ pc = "done"
    /\ num_players = 4
    /\ AlignmentPool(roles, "NEUTRAL", tier) = <<>>
    /\ characters.len = 4

\* C16: between two iterations of either selection loop every entry has
\* been selected 0 times or at least min_number times, and what is selected
\* fits the count: the copies that reach the minimum are added in one
\* iteration, and only when the remaining slots hold all of them.
C16_LockInAtomic ==
    InLoop =>
        /\ \A e \in Range(StartPool(phase)) :
               selected_counts[e.name] = 0 \/ selected_counts[e.name] >= e.min_number
        /\ selected = selected_counts
        /\ len(selected) <= count

\* an iteration has just locked in a minimum of two or more, and the loop
\* goes on
C16_Witness ==
    /\ InLoop
    /\ last_step = "added"
    /\ len(selected) < count
    /\ \E e \in Range(StartPool(phase)) :
           e.min_number >= 2 /\ selected_counts[e.name] = e.min_number

\* C17: after an iteration of either selection loop the pool holds no
\* entry that has reached its capacity and no entry whose outstanding
\* minimum exceeds the remaining slots.
C17_PoolPrunedAfterEveryIteration ==
    WellFormedCatalogs =>
        ((InLoop /\ last_step # "none") =>
            \A e \in Range(pool) :
                /\ selected_counts[e.name] < Capacity(e)
                /\ (e.min_number - selected_counts[e.name]) <= (count - len(selected)))

\* C18: a selection that returned holds no copy of an entry whose
\* min_number exceeds its capacity at the tier of the call.
C18_InfeasibleEntryNeverSelected ==
    \A ph \in Pools :
        (tier # "NONE" /\ Returned(ph)) =>
            \A e \in Range(StartPool(ph)) :
                e.min_number > Capacity(e) => Result(ph)[e.name] = 0

\* the lists pick_roles can return from the loop state st, over every
\* sequence of draws
RECURSIVE PossibleResults(_, _, _)
PossibleResults(st, cnt, t) ==
    IF len(st.selected) >= cnt
    THEN {st.selected}
    ELSE IF st.pool = <<>>
         THEN {}
         ELSE UNION {PossibleResults(PickRolesIteration(st, cnt, t, st.pool[i]), cnt, t) :
                         i \in 1 .. Len(st.pool)}

\* the bags of exactly cnt items in which each entry of seq occurs 0 times
\* or between its min_number and its capacity times
RECURSIVE ValidBags(_, _)
ValidBags(seq, cnt) ==
    IF seq = <<>>
    THEN IF cnt = 0 THEN {Counter} ELSE {}
    ELSE LET e == Head(seq)
             ks == {0} \cup {k \in e.min_number .. Capacity(e) : k >= 1}
         IN UNION {{Extend(b, e.name, k) : b \in ValidBags(Tail(seq), cnt - k)} :
                       k \in {j \in ks : j <= cnt}}

\* pick_roles has just been called
PickRolesCalled ==
    /\ pc = "pick_roles"
    /\ last_step = "none"
    /\ selected = Counter
    /\ pool = StartPool(phase)

\* C19: when pick_roles is called with a pool in which every entry has
\* min_number <= capacity at the tier, every bag of exactly count items in
\* which each entry occurs 0 times or between min_number and capacity times
\* is returned for some sequence of draws.
C19_EveryValidBagPossible ==
    (PickRolesCalled /\ \A e \in Range(pool) : e.min_number <= Capacity(e)) =>
        ValidBags(pool, count) \subseteq PossibleResults(LoopState, count, tier)

\* pick_roles is called for three items or more with a pool that has a
\* minimum of two or more and admits three valid bags or more
C19_Witness ==
    /\ PickRolesCalled
    /\ \A e \in Range(pool) : e.min_number <= Capacity(e)
    /\ \E e \in Range(pool) : e.min_number >= 2
    /\ count >= 3
    /\ Cardinality(ValidBags(pool, count)) >= 3

LacksRequiredField(kind, entry) == ~(RequiredKeys(kind) \subseteq entry.keys)

\* an entry names a value that is not a member of the enumeration its kind
\* looks it up in
UnrecognizedAlignment(kind, entry) ==
    kind = "roles" /\ "alignment" \in entry.keys /\ entry.alignment \notin Alignments

UnrecognizedTier(kind, entry) ==
    "tier_distribution" \in entry.keys
        /\ \E k \in 1 .. Len(entry.tier_distribution) : entry.tier_distribution[k] \notin Tiers

UnrecognizedAbilityType(kind, entry) ==
    "abilities_list" \in entry.keys
        /\ \E k \in 1 .. Len(entry.abilities_list) :
               /\ "ability_type" \in entry.abilities_list[k].keys
               /\ entry.abilities_list[k].ability_type \notin AbilityTypes

UnrecognizedWinCondition(kind, entry) ==
    kind = "roles" /\ "win_condition" \in entry.keys
        /\ entry.win_condition \notin WinConditions

InvalidEntry(kind, entry) ==
    \/ LacksRequiredField(kind, entry)
    \/ UnrecognizedAlignment(kind, entry)
    \/ UnrecognizedTier(kind, entry)
    \/ UnrecognizedAbilityType(kind, entry)
    \/ UnrecognizedWinCondition(kind, entry)

\* C13: a call of the loader on a file with an entry that lacks a required
\* field or names an unrecognized alignment, tier, ability type or win
\* condition ends by raising ConfigError, and no other error.
C13_LoaderRaisesConfigErrorOnly ==
    (/\ loader.pc \in {"returned", "raised"}
     /\ \E k \in 1 .. Len(loader.data) : InvalidEntry(loader.kind, loader.data[k]))
        => (loader.pc = "raised" /\ loader.error = "ConfigError")

\* the part of C13 the loader keeps: a missing required field or an
\* unrecognized tier name in an entry that is otherwise recognized
C13_MissingFieldOrTierRaisesConfigError ==
    (/\ loader.pc \in {"returned", "raised"}
     /\ \E k \in 1 .. Len(loader.data) :
            /\ LacksRequiredField(loader.kind, loader.data[k])
                   \/ UnrecognizedTier(loader.kind, loader.data[k])
            /\ ~UnrecognizedAlignment(loader.kind, loader.data[k])
            /\ ParseAbilities(loader.data[k].abilities_list) = "none")
        => (loader.pc = "raised" /\ loader.error = "ConfigError")

\* the players 1 .. n in list order
InListOrder(n) == [k \in 1 .. n |-> k]

\* C15: no compile failure aborts the writers.  Whatever pdflatex does for
\* each sheet, write_players writes a .tex file and attempts compilation
\* for every player in list order, reports each failure for its own sheet
\* and returns; write_narrator then returns as well.
C15_CompileFailureDoesNotAbort ==
    /\ writer.pc # "aborted"
    /\ writer.pc = "write_players" =>
           /\ writer.tex_written = InListOrder(writer.i - 1)
           /\ writer.attempted = InListOrder(writer.i - 1)
    /\ writer.pc \in {"write_narrator", "returned"} =>
           /\ writer.tex_written = InListOrder(writer.players)
           /\ writer.attempted = InListOrder(writer.players)
    /\ \A k \in 1 .. Len(writer.printed) :
           writer.printed[k] = "error" <=> RunPdflatex(writer.runs[k]) # "none"

\* both writers have returned although the first sheet failed to compile,
\* a later one compiled, one run found no pdflatex and the narrator script
\* failed
C15_Witness ==
    /\ writer.pc = "returned"
    /\ writer.players >= 3
    /\ writer.printed[1] = "error"
    /\ \E k \in 2 .. writer.players : writer.printed[k] = "generated"
    /\ \E k \in 1 .. writer.players : ~writer.runs[k].found
    /\ writer.narrator = "error"

====
